---- MODULE Spec2Model ----
(***************************************************************************)
(* Task board: the REST handlers for Board and Task records and the        *)
(* relational store behind them.  Each handler is split at its awaits on    *)
(* the store: the first step runs the synchronous checks and the lookup,    *)
(* the second step applies the write.  Requests of different clients        *)
(* interleave between the two steps.                                        *)
(***************************************************************************)
EXTENDS Integers, Sequences, FiniteSets, TLC

\* ------------------------------------------------------------------ bounds
MaxBoards == 2
MaxTasks == 2
\* Boards and Tasks of the specification with a reader.
ReadBoards == 1
ReadTasks == 2
\* Boards and Tasks of the specification that varies the request bodies.
InBoards == 1
InTasks == 1
\* Tasks of the specification that varies the patches.
PatchTasks == 2
\* Tasks of the specification that moves Tasks between statuses.
StatusTasks == 2
\* Tasks two racing clients work on.
RaceTasks == 1
\* Tasks the board page creates.
PageTasks == 2
\* Tasks and Boards created while handlers overlap.
OverlapTasks == 1
OverlapBoards == 2
\* Boards the dashboard creates.
DashBoards == 1

Clients == {"c1", "c2"}
Writer == "c1"

\* ------------------------------------------------------- JavaScript values
\* A JSON/JS value is a record [t, v]: t its typeof-like tag, v its text as a
\* sequence of one-character strings.
Undef == [t |-> "undefined", v |-> <<>>]
Null == [t |-> "null", v |-> <<>>]
Str(s) == [t |-> "string", v |-> s]
Num(s) == [t |-> "number", v |-> s]
Bool(s) == [t |-> "boolean", v |-> s]

Num0 == Num(<<"0">>)
Num5 == Num(<<"5">>)
False == Bool(<<"f">>)
EmptyStr == Str(<<>>)

\* JS truthiness: undefined, null, "", 0 and false are falsy.
Truthy(x) ==
    CASE x.t = "undefined" -> FALSE
      [] x.t = "null" -> FALSE
      [] x.t = "string" -> x.v # <<>>
      [] x.t = "number" -> x.v # <<"0">>
      [] x.t = "boolean" -> x.v # <<"f">>
      [] OTHER -> TRUE

\* x ?? d
Coalesce(x, d) == IF x.t \in {"undefined", "null"} THEN d ELSE x

\* Array.prototype.includes
Includes(arr, x) == \E i \in DOMAIN arr : arr[i] = x

\* String.prototype.trim on a character sequence (whitespace is " ").
RECURSIVE TrimLeft(_)
TrimLeft(s) == IF s # <<>> /\ Head(s) = " " THEN TrimLeft(Tail(s)) ELSE s

RECURSIVE TrimRight(_)
TrimRight(s) ==
    IF s # <<>> /\ s[Len(s)] = " " THEN TrimRight(SubSeq(s, 1, Len(s) - 1)) ELSE s

Trim(s) == TrimRight(TrimLeft(s))

\* new Date(x): a string of four digits parses (a year); any other string gives
\* Invalid Date; a number or boolean gives a valid epoch date.
Digits == {"0", "1", "2", "3", "4", "5", "6", "7", "8", "9"}
InvalidDate == [t |-> "date", v |-> <<"N", "a", "N">>]
NewDate(x) ==
    IF x.t = "string"
    THEN IF Len(x.v) = 4 /\ \A i \in 1..4 : x.v[i] \in Digits
         THEN [t |-> "date", v |-> x.v]
         ELSE InvalidDate
    ELSE [t |-> "date", v |-> x.v]

\* ------------------------------------------------------------ enumerations
todo == <<"t", "o", "d", "o">>
in_progress == <<"i", "n", "_", "p">>
done == <<"d", "o", "n", "e">>
low == <<"l", "o", "w">>
medium == <<"m", "e", "d">>
high == <<"h", "i", "g", "h">>
urgent == <<"u", "r", "g">>

validStatuses == <<Str(todo), Str(in_progress), Str(done)>>
validPriorities == <<Str(low), Str(medium), Str(high)>>

\* ------------------------------------------------------------------- state
VARIABLES
    boards,     \* the Board table: id -> row
    tasks,      \* the Task table: id -> row
    nextBoard,  \* number of Board ids handed out so far
    nextTask,   \* number of Task ids handed out so far
    reqs,       \* per client: the request suspended at its store write
    last,       \* the response produced by the latest step, if any
    cascaded,   \* history: <<task id, board id>> of the rows a Board delete removed
    view,       \* what the reader's latest read showed
    page,       \* the state of the board page (BoardDetailPage)
    dashboard,  \* the state of the dashboard page
    fetches     \* per connection: the page handler suspended at its fetch

\* The variables of the two pages.
ui == <<page, dashboard, fetches>>

vars == <<boards, tasks, nextBoard, nextTask, reqs, last, cascaded, view, ui>>

\* Ids are opaque strings; the n-th id of a table is its prefix and n.
BoardId(n) == <<"b", ToString(n)>>
TaskId(n) == <<"t", ToString(n)>>
BoardIds == {BoardId(n) : n \in 1..MaxBoards}
TaskIds == {TaskId(n) : n \in 1..MaxTasks}
ghost == <<"g", "h", "o", "s", "t">>
\* No id: the null of a state that holds an id.
NoId == <<>>

\* A request body: the keys the handlers destructure; Undef is an absent key.
NoBody ==
    [boardId |-> Undef, title |-> Undef, description |-> Undef, status |-> Undef,
     priority |-> Undef, assignedTo |-> Undef, dueDate |-> Undef, name |-> Undef,
     color |-> Undef, id |-> Undef, createdAt |-> Undef]

NoView == [kind |-> "none", board |-> <<>>, code |-> 0, tasks |-> {}, lost |-> {}]
Idle == [op |-> "idle", id |-> <<>>, data |-> NoBody, seen |-> Null]
NoResp == [client |-> "", op |-> "none", id |-> <<>>, body |-> NoBody, code |-> 0,
           error |-> "", calls |-> 0, task |-> Null, was |-> Null, seen |-> Null]

\* A response; calls is the number of store calls its request made before it.
Resp(c, op, id, body, code, error, calls) ==
    [client |-> c, op |-> op, id |-> id, body |-> body, code |-> code, error |-> error,
     calls |-> calls, task |-> Null, was |-> Null, seen |-> Null]

\* A Task as JSON: the row with its id.
TaskJson(id, row) == ("id" :> id) @@ row

\* A response that carries a Task.
WithTask(resp, id, row) == [resp EXCEPT !.task = TaskJson(id, row)]

\* A response that carries a Board: the row with its id.
WithBoard(resp, id, row) == [resp EXCEPT !.task = ("id" :> id) @@ row]

\* History: existingTask, the row the existence check of the request found.
Seeing(resp, row) == [resp EXCEPT !.seen = row]

\* History: the row the write behind a response replaced.
Replacing(resp, id, row) == [resp EXCEPT !.was = TaskJson(id, row)]

\* No handler is suspended on the connection.
NoFetch ==
    [kind |-> "none", id |-> <<>>, body |-> NoBody, saved |-> Null, resp |-> NoResp,
     phase |-> "none", before |-> <<>>]

\* The board page before its board is fetched; formIsLoading is the isLoading
\* of its create form, now the clock Date.now() reads.
NoPage ==
    [isLoading |-> TRUE, tasks |-> <<>>, editingTask |-> Null, isEditLoading |-> FALSE,
     deletingTaskId |-> NoId, isDeleteLoading |-> FALSE,
     formIsLoading |-> FALSE, now |-> 0]

\* The dashboard before it is mounted; formIsLoading is the isLoading of its
\* create form.
NoDashboard ==
    [isLoading |-> TRUE, boards |-> <<>>, deleteConfirm |-> NoId, formIsLoading |-> FALSE]

Init ==
    /\ boards = <<>>
    /\ tasks = <<>>
    /\ nextBoard = 0
    /\ nextTask = 0
    /\ reqs = [c \in Clients |-> Idle]
    /\ last = NoResp
    /\ cascaded = {}
    /\ view = NoView
    /\ page = NoPage
    /\ dashboard = NoDashboard
    /\ fetches = [c \in Clients |-> NoFetch]

\* ------------------------------------------------------------ record store
\* Column types of the two tables.
IsText(x) == x.t = "string"
IsTextOrNull(x) == x.t \in {"string", "null"}
IsTimestampOrNull(x) == x.t = "null" \/ (x.t = "date" /\ x # InvalidDate)

\* A key left undefined in a write's data is not written.
Given(x) == x.t # "undefined"

\* Task columns accept the data of a create: NOT NULL text for title and status.
TaskDataOk(d) ==
    /\ IsText(d.title)
    /\ IsText(d.status)
    /\ IsTextOrNull(d.description)
    /\ IsTextOrNull(d.priority)
    /\ IsTextOrNull(d.assignedTo)
    /\ IsTimestampOrNull(d.dueDate)

\* Task columns accept the data of an update: only the given keys are checked.
TaskPatchOk(d) ==
    /\ Given(d.title) => IsText(d.title)
    /\ Given(d.status) => IsText(d.status)
    /\ Given(d.description) => IsTextOrNull(d.description)
    /\ Given(d.priority) => IsTextOrNull(d.priority)
    /\ Given(d.assignedTo) => IsTextOrNull(d.assignedTo)
    /\ Given(d.dueDate) => IsTimestampOrNull(d.dueDate)

\* Mutant of ForeignKeyOk: the Task table without its foreign key.
ForeignKeyOff(bs, boardId) == TRUE

\* Task_boardId_fkey: the referenced Board row must exist at the insert.
ForeignKeyOk(bs, boardId) == boardId \in DOMAIN bs

\* Mutant of CascadeTasks: the Board delete leaves the Task rows alone.
CascadeNone(ts, b) == ts

\* ON DELETE CASCADE: the Task rows left after Board b is deleted.
CascadeTasks(ts, b) ==
    LET keep == {t \in DOMAIN ts : ts[t].boardId # b}
    IN  [t \in keep |-> ts[t]]

\* Mutant of RemoveBoard: the Board row survives its own delete.
RemoveBoardNone(bs, b) == bs

\* The Board rows left after Board b is deleted.
RemoveBoard(bs, b) == [x \in DOMAIN bs \ {b} |-> bs[x]]

\* Mutant of RemoveTask: the row survives its delete.
RemoveTaskNone(ts, t) == ts

\* The Task rows left after Task t is deleted.
RemoveTask(ts, t) == [x \in DOMAIN ts \ {t} |-> ts[x]]

\* Mutant of MergeTask: a full replace, the optional columns not given are
\* cleared.
MergeTaskReplace(row, d) ==
    [boardId |-> row.boardId,
     title |-> IF Given(d.title) THEN d.title ELSE row.title,
     description |-> IF Given(d.description) THEN d.description ELSE Null,
     status |-> IF Given(d.status) THEN d.status ELSE row.status,
     priority |-> IF Given(d.priority) THEN d.priority ELSE Null,
     assignedTo |-> IF Given(d.assignedTo) THEN d.assignedTo ELSE Null,
     dueDate |-> IF Given(d.dueDate) THEN d.dueDate ELSE Null]

\* Mutant of MergeTask: the first status written stays.
MergeTaskKeepFirst(row, d) ==
    [boardId |-> row.boardId,
     title |-> IF Given(d.title) THEN d.title ELSE row.title,
     description |-> IF Given(d.description) THEN d.description ELSE row.description,
     status |-> IF Given(d.status) /\ row.status = Str(todo) THEN d.status ELSE row.status,
     priority |-> IF Given(d.priority) THEN d.priority ELSE row.priority,
     assignedTo |-> IF Given(d.assignedTo) THEN d.assignedTo ELSE row.assignedTo,
     dueDate |-> IF Given(d.dueDate) THEN d.dueDate ELSE row.dueDate]

\* Mutant of MergeTask: a status not given goes back to its default.
MergeTaskDefaults(row, d) ==
    [boardId |-> row.boardId,
     title |-> IF Given(d.title) THEN d.title ELSE row.title,
     description |-> IF Given(d.description) THEN d.description ELSE row.description,
     status |-> IF Given(d.status) THEN d.status ELSE Str(todo),
     priority |-> IF Given(d.priority) THEN d.priority ELSE row.priority,
     assignedTo |-> IF Given(d.assignedTo) THEN d.assignedTo ELSE row.assignedTo,
     dueDate |-> IF Given(d.dueDate) THEN d.dueDate ELSE row.dueDate]

\* The row of a Task after an update: given keys replace, the others stay.
MergeTask(row, d) ==
    [boardId |-> row.boardId,
     title |-> IF Given(d.title) THEN d.title ELSE row.title,
     description |-> IF Given(d.description) THEN d.description ELSE row.description,
     status |-> IF Given(d.status) THEN d.status ELSE row.status,
     priority |-> IF Given(d.priority) THEN d.priority ELSE row.priority,
     assignedTo |-> IF Given(d.assignedTo) THEN d.assignedTo ELSE row.assignedTo,
     dueDate |-> IF Given(d.dueDate) THEN d.dueDate ELSE row.dueDate]

\* The row inserted for a Task.
TaskRow(d) ==
    [boardId |-> d.boardId.v, title |-> d.title, description |-> d.description,
     status |-> d.status, priority |-> d.priority, assignedTo |-> d.assignedTo,
     dueDate |-> d.dueDate]

\* ---------------------------------------------------------------- responses
\* No response is on its way to a client.
Quiet == last = NoResp

\* The response of the latest step reaches its client.
Deliver ==
    /\ last # NoResp
    /\ last' = NoResp
    /\ UNCHANGED <<boards, tasks, nextBoard, nextTask, reqs, cascaded, view, ui>>

\* --------------------------------------------------------- POST /api/tasks
\* A handler's verdict before its write: <<0, "">> when it goes on to the write,
\* else the status code and error it returns.
Proceed == <<0, "">>

\* Mutant of TaskPostCheck: the Board lookup is left to the insert.
TaskPostCheckNoLookup(body, bs) ==
    IF ~Truthy(body.boardId) THEN <<400, "boardId is required">>
    ELSE IF ~Truthy(body.title) THEN <<400, "title is required">>
    ELSE IF Truthy(body.status) /\ ~Includes(validStatuses, body.status)
         THEN <<400, "Invalid status">>
    ELSE IF Truthy(body.priority) /\ ~Includes(validPriorities, body.priority)
         THEN <<400, "Invalid priority">>
    ELSE Proceed

\* The checks of POST up to the insert, against the Board table as read.
TaskPostCheck(body, bs) ==
    IF ~Truthy(body.boardId) THEN <<400, "boardId is required">>
    ELSE IF ~Truthy(body.title) THEN <<400, "title is required">>
    ELSE IF ~IsText(body.boardId) THEN <<500, "Internal server error">>
    ELSE IF body.boardId.v \notin DOMAIN bs THEN <<404, "Board not found">>
    ELSE IF Truthy(body.status) /\ ~Includes(validStatuses, body.status)
         THEN <<400, "Invalid status">>
    ELSE IF Truthy(body.priority) /\ ~Includes(validPriorities, body.priority)
         THEN <<400, "Invalid priority">>
    ELSE Proceed

\* Mutant of PostStatus: the default status is not todo.
PostStatusDone(body) == Coalesce(body.status, Str(done))

\* The status POST stores.
PostStatus(body) == Coalesce(body.status, Str(todo))

\* The data object POST hands to the insert.
TaskPostData(body) ==
    [boardId |-> body.boardId,
     title |-> body.title,
     description |-> Coalesce(body.description, Null),
     status |-> PostStatus(body),
     priority |-> Coalesce(body.priority, Null),
     assignedTo |-> Coalesce(body.assignedTo, Null),
     dueDate |-> IF Truthy(body.dueDate) THEN NewDate(body.dueDate) ELSE Null]

\* Inserts in flight: each will take one Task id.
PendingCreates == Cardinality({c \in Clients : reqs[c].op = "createTask"})

\* Store calls POST has made when its checks give their verdict: the Board
\* lookup runs once both required fields are there.
TaskPostCalls(body) == IF ~Truthy(body.boardId) \/ ~Truthy(body.title) THEN 0 ELSE 1

\* POST, first step: required fields, Board lookup, enumeration checks.
TaskPostLookup(c, body, cap) ==
    /\ Quiet
    /\ reqs[c] = Idle
    /\ LET r == TaskPostCheck(body, boards)
       IN  IF r = Proceed
           THEN /\ nextTask + PendingCreates < cap
                /\ reqs' = [reqs EXCEPT ![c] =
                               [op |-> "createTask", id |-> <<>>, data |-> body, seen |-> Null]]
                /\ last' = NoResp
           ELSE /\ reqs' = reqs
                /\ last' = Resp(c, "createTask", <<>>, body, r[1], r[2],
                                TaskPostCalls(body))
    /\ UNCHANGED <<boards, tasks, nextBoard, nextTask, cascaded, view, ui>>

\* POST, second step: the insert; a store error is answered 500.
TaskPostWrite(c) ==
    /\ Quiet
    /\ reqs[c].op = "createTask"
    /\ LET body == reqs[c].data
           d == TaskPostData(body)
           id == TaskId(nextTask + 1)
       IN  IF TaskDataOk(d) /\ ForeignKeyOk(boards, d.boardId.v)
           THEN /\ tasks' = (id :> TaskRow(d)) @@ tasks
                /\ nextTask' = nextTask + 1
                /\ last' = WithTask(Resp(c, "createTask", id, body, 201, "", 2),
                                     id, TaskRow(d))
           ELSE /\ UNCHANGED <<tasks, nextTask>>
                /\ last' = Resp(c, "createTask", <<>>, body, 500,
                                "Internal server error", 2)
    /\ reqs' = [reqs EXCEPT ![c] = Idle]
    /\ UNCHANGED <<boards, nextBoard, cascaded, view, ui>>

\* --------------------------------------------------- PATCH /api/tasks/[id]
\* Mutant of TaskPatchCheck: the enumerations are checked before existence.
TaskPatchCheckEnumsFirst(id, body, ts) ==
    IF Given(body.status) /\ ~Includes(validStatuses, body.status)
    THEN <<400, "Invalid status">>
    ELSE IF Given(body.priority) /\ body.priority # Null
            /\ ~Includes(validPriorities, body.priority)
         THEN <<400, "Invalid priority">>
    ELSE IF id \notin DOMAIN ts THEN <<404, "Task not found">>
    ELSE Proceed

\* The rank of a status in the order todo, in_progress, done.
StatusRank(x) == CHOOSE i \in DOMAIN validStatuses : validStatuses[i] = x

\* Mutant of TaskPatchCheck: a status may only move forward.
TaskPatchCheckForwardOnly(id, body, ts) ==
    IF id \notin DOMAIN ts THEN <<404, "Task not found">>
    ELSE IF Given(body.status) /\ ~Includes(validStatuses, body.status)
         THEN <<400, "Invalid status">>
    ELSE IF Given(body.status) /\ Includes(validStatuses, ts[id].status)
            /\ StatusRank(body.status) < StatusRank(ts[id].status)
         THEN <<400, "Invalid status">>
    ELSE IF Given(body.priority) /\ body.priority # Null
            /\ ~Includes(validPriorities, body.priority)
         THEN <<400, "Invalid priority">>
    ELSE Proceed

\* The checks of PATCH up to the update, against the Task table as read.
TaskPatchCheck(id, body, ts) ==
    IF id \notin DOMAIN ts THEN <<404, "Task not found">>
    ELSE IF Given(body.status) /\ ~Includes(validStatuses, body.status)
         THEN <<400, "Invalid status">>
    ELSE IF Given(body.priority) /\ body.priority # Null
            /\ ~Includes(validPriorities, body.priority)
         THEN <<400, "Invalid priority">>
    ELSE Proceed

\* The dueDate PATCH writes for a given dueDate key.
PatchDueDate(x) == IF Truthy(x) THEN NewDate(x) ELSE Null

\* Mutant of TaskPatchData: a null priority is taken for an absent one.
TaskPatchDataNullAbsent(body) ==
    [title |-> body.title,
     description |-> body.description,
     status |-> body.status,
     priority |-> IF body.priority = Null THEN Undef ELSE body.priority,
     assignedTo |-> body.assignedTo,
     dueDate |-> IF Given(body.dueDate) THEN PatchDueDate(body.dueDate) ELSE Undef]

\* updateData: only the keys of the body that are not undefined.
TaskPatchData(body) ==
    [title |-> body.title,
     description |-> body.description,
     status |-> body.status,
     priority |-> body.priority,
     assignedTo |-> body.assignedTo,
     dueDate |-> IF Given(body.dueDate) THEN PatchDueDate(body.dueDate) ELSE Undef]

\* PATCH, first step: existence and enumeration checks.
TaskPatchLookup(c, id, body) ==
    /\ Quiet
    /\ reqs[c] = Idle
    /\ LET r == TaskPatchCheck(id, body, tasks)
       IN  IF r = Proceed
           THEN /\ reqs' = [reqs EXCEPT ![c] =
                               [op |-> "updateTask", id |-> id, data |-> body,
                                seen |-> TaskJson(id, tasks[id])]]
                /\ last' = NoResp
           ELSE /\ reqs' = reqs
                /\ last' = Resp(c, "updateTask", id, body, r[1], r[2], 1)
    /\ UNCHANGED <<boards, tasks, nextBoard, nextTask, cascaded, view, ui>>

\* Mutant of TaskPatchWrite: an upsert, a missing row is written again from
\* the row the existence check found.
TaskPatchWriteUpsert(c) ==
    /\ Quiet
    /\ reqs[c].op = "updateTask"
    /\ LET id == reqs[c].id
           body == reqs[c].data
           d == TaskPatchData(body)
           seen == reqs[c].seen
           row == IF id \in DOMAIN tasks
                  THEN tasks[id]
                  ELSE [boardId |-> seen.boardId, title |-> seen.title,
                        description |-> seen.description, status |-> seen.status,
                        priority |-> seen.priority, assignedTo |-> seen.assignedTo,
                        dueDate |-> seen.dueDate]
       IN  /\ tasks' = (id :> MergeTask(row, d)) @@ tasks
           /\ last' = Seeing(WithTask(Resp(c, "updateTask", id, body, 200, "", 2),
                                      id, MergeTask(row, d)),
                             seen)
    /\ reqs' = [reqs EXCEPT ![c] = Idle]
    /\ UNCHANGED <<boards, nextBoard, nextTask, cascaded, view, ui>>

\* Mutant of TaskPatchWrite: data is the whole body, a boardId in it moves the
\* Task.
TaskPatchWriteSpread(c) ==
    /\ Quiet
    /\ reqs[c].op = "updateTask"
    /\ LET id == reqs[c].id
           body == reqs[c].data
           d == TaskPatchData(body)
           row == IF (id \in DOMAIN tasks) /\ Given(body.boardId)
                  THEN [MergeTask(tasks[id], d) EXCEPT !.boardId = body.boardId.v]
                  ELSE MergeTask(tasks[id], d)
       IN  IF id \in DOMAIN tasks /\ TaskPatchOk(d)
           THEN /\ tasks' = [tasks EXCEPT ![id] = row]
                /\ last' = Seeing(Replacing(WithTask(Resp(c, "updateTask", id, body, 200,
                                                            "", 2),
                                                       id, row),
                                              id, tasks[id]),
                                   reqs[c].seen)
           ELSE /\ tasks' = tasks
                /\ last' = Seeing(Resp(c, "updateTask", id, body, 500,
                                       "Internal server error", 2),
                                   reqs[c].seen)
    /\ reqs' = [reqs EXCEPT ![c] = Idle]
    /\ UNCHANGED <<boards, nextBoard, nextTask, cascaded, view, ui>>

\* PATCH, second step: the update; a missing row or a rejected value is a
\* store error, answered 500.
TaskPatchWrite(c) ==
    /\ Quiet
    /\ reqs[c].op = "updateTask"
    /\ LET id == reqs[c].id
           body == reqs[c].data
           d == TaskPatchData(body)
       IN  IF id \in DOMAIN tasks /\ TaskPatchOk(d)
           THEN /\ tasks' = [tasks EXCEPT ![id] = MergeTask(@, d)]
                /\ last' = Seeing(Replacing(WithTask(Resp(c, "updateTask", id, body, 200,
                                                            "", 2),
                                                       id, MergeTask(tasks[id], d)),
                                              id, tasks[id]),
                                   reqs[c].seen)
           ELSE /\ tasks' = tasks
                /\ last' = Seeing(Resp(c, "updateTask", id, body, 500,
                                       "Internal server error", 2),
                                   reqs[c].seen)
    /\ reqs' = [reqs EXCEPT ![c] = Idle]
    /\ UNCHANGED <<boards, nextBoard, nextTask, cascaded, view, ui>>

\* -------------------------------------------------- DELETE /api/tasks/[id]
\* DELETE, first step: the existence check.
TaskDeleteLookup(c, id) ==
    /\ Quiet
    /\ reqs[c] = Idle
    /\ IF id \in DOMAIN tasks
       THEN /\ reqs' = [reqs EXCEPT ![c] =
                           [op |-> "deleteTask", id |-> id, data |-> NoBody, seen |-> Null]]
            /\ last' = NoResp
       ELSE /\ reqs' = reqs
            /\ last' = Resp(c, "deleteTask", id, NoBody, 404, "Task not found", 1)
    /\ UNCHANGED <<boards, tasks, nextBoard, nextTask, cascaded, view, ui>>

\* DELETE, second step: the delete; a missing row is a store error.
TaskDeleteWrite(c) ==
    /\ Quiet
    /\ reqs[c].op = "deleteTask"
    /\ LET id == reqs[c].id
       IN  IF id \in DOMAIN tasks
           THEN /\ tasks' = RemoveTask(tasks, id)
                /\ last' = WithTask(Resp(c, "deleteTask", id, NoBody, 200, "", 2),
                                     id, tasks[id])
           ELSE /\ tasks' = tasks
                /\ last' = Resp(c, "deleteTask", id, NoBody, 500,
                                "Internal server error", 2)
    /\ reqs' = [reqs EXCEPT ![c] = Idle]
    /\ UNCHANGED <<boards, nextBoard, nextTask, cascaded, view, ui>>

\* -------------------------------------------------------- POST /api/boards
\* The name check of the board POST.
BoardNameMissing(name) ==
    ~Truthy(name) \/ name.t # "string" \/ Trim(name.v) = <<>>

\* Mutant of BoardPostData: the name is stored as given.
BoardPostDataRaw(body) ==
    [name |-> body.name,
     description |-> Coalesce(body.description, Null),
     color |-> Coalesce(body.color, Null)]

\* The data object the board POST hands to the insert.
BoardPostData(body) ==
    [name |-> Str(Trim(body.name.v)),
     description |-> Coalesce(body.description, Null),
     color |-> Coalesce(body.color, Null)]

\* Board columns accept the data of a create.
BoardDataOk(d) ==
    IsText(d.name) /\ IsTextOrNull(d.description) /\ IsTextOrNull(d.color)

\* Board POST: one step, the name check and the insert.
BoardPost(c, body, cap) ==
    /\ Quiet
    /\ reqs[c] = Idle
    /\ IF BoardNameMissing(body.name)
       THEN /\ UNCHANGED <<boards, nextBoard>>
            /\ last' = Resp(c, "createBoard", <<>>, body, 400, "Name is required", 0)
       ELSE LET d == BoardPostData(body)
                id == BoardId(nextBoard + 1)
            IN  IF BoardDataOk(d)
                THEN /\ nextBoard < cap
                     /\ boards' = (id :> d) @@ boards
                     /\ nextBoard' = nextBoard + 1
                     /\ last' = WithBoard(Resp(c, "createBoard", id, body, 201, "", 1),
                                           id, d)
                ELSE /\ UNCHANGED <<boards, nextBoard>>
                     /\ last' = Resp(c, "createBoard", <<>>, body, 500,
                                     "Failed to create board", 1)
    /\ UNCHANGED <<tasks, nextTask, reqs, cascaded, view, ui>>

\* ------------------------------------------------- DELETE /api/boards/[id]
\* Board DELETE, first step: the existence check.
BoardDeleteLookup(c, id) ==
    /\ Quiet
    /\ reqs[c] = Idle
    /\ IF id \in DOMAIN boards
       THEN /\ reqs' = [reqs EXCEPT ![c] =
                           [op |-> "deleteBoard", id |-> id, data |-> NoBody, seen |-> Null]]
            /\ last' = NoResp
       ELSE /\ reqs' = reqs
            /\ last' = Resp(c, "deleteBoard", id, NoBody, 404, "Board not found", 1)
    /\ UNCHANGED <<boards, tasks, nextBoard, nextTask, cascaded, view, ui>>

\* Board DELETE, second step: one delete statement; the foreign key cascades
\* to the Board's Task rows in the same statement.
BoardDeleteWrite(c) ==
    /\ Quiet
    /\ reqs[c].op = "deleteBoard"
    /\ LET id == reqs[c].id
       IN  IF id \in DOMAIN boards
           THEN /\ boards' = RemoveBoard(boards, id)
                /\ tasks' = CascadeTasks(tasks, id)
                /\ cascaded' = cascaded \cup {<<t, id>> : t \in DOMAIN tasks \ DOMAIN tasks'}
                /\ last' = Resp(c, "deleteBoard", id, NoBody, 200, "", 2)
           ELSE /\ UNCHANGED <<boards, tasks, cascaded>>
                /\ last' = Resp(c, "deleteBoard", id, NoBody, 500,
                                "Failed to delete board", 2)
    /\ reqs' = [reqs EXCEPT ![c] = Idle]
    /\ UNCHANGED <<nextBoard, nextTask, view, ui>>

\* ------------------------------------------------------------------- reads
\* where: { boardId: b }: the ids of the Task rows of Board b.
TaskFindMany(ts, b) == {t \in DOMAIN ts : ts[t].boardId = b}

\* The columns of the Task table.
TaskColumns ==
    {"id", "title", "description", "status", "priority", "assignedTo", "dueDate",
     "createdAt", "updatedAt", "boardId"}

\* The keys GET /api/tasks orders by.
ListOrderBy == <<"order", "createdAt">>

\* GET /api/tasks?boardId=b: findMany of the Board's rows ordered by
\* ListOrderBy.  A key that is no column of the table is a store error, which
\* the handler's catch answers 500.
TaskList(ts, b) ==
    IF \A i \in DOMAIN ListOrderBy : ListOrderBy[i] \in TaskColumns
    THEN <<200, TaskFindMany(ts, b)>>
    ELSE <<500, {}>>

\* GET /api/tasks/[id]: the row, or 404.
TaskFindUnique(ts, t) == IF t \in DOMAIN ts THEN <<200, ts[t]>> ELSE <<404, Null>>

\* GET /api/boards/[id]: 200 with the Board's Tasks, or 404.
BoardFindUnique(bs, ts, b) ==
    IF b \in DOMAIN bs THEN <<200, TaskFindMany(ts, b)>> ELSE <<404, {}>>

\* What a read showed: the Board it concerns, the response code, the Tasks of
\* that Board it returned, and (history) the Tasks of that Board that a Board
\* delete had removed when the read ran.
View(kind, b, code, ts, lost) ==
    [kind |-> kind, board |-> b, code |-> code, tasks |-> ts, lost |-> lost]

LostOf(b) == {p[1] : p \in {q \in cascaded : q[2] = b}}

\* Ids are unguessable: a reader names only ids the store has handed out.
IssuedBoards == {BoardId(n) : n \in 1..nextBoard}
IssuedTasks == {TaskId(n) : n \in 1..nextTask}

\* The reader's reads; each is one store call.
Observe(v) ==
    /\ view' = v
    /\ UNCHANGED <<boards, tasks, nextBoard, nextTask, reqs, last, cascaded, ui>>

ReadBoard(b) ==
    /\ b \in IssuedBoards
    /\ LET r == BoardFindUnique(boards, tasks, b)
       IN  Observe(View("board", b, r[1], r[2], LostOf(b)))

ReadList(b) ==
    /\ b \in IssuedBoards
    /\ LET r == TaskList(tasks, b)
       IN  Observe(View("list", b, r[1], r[2], LostOf(b)))

ReadTask(t) ==
    /\ t \in IssuedTasks
    /\ LET r == TaskFindUnique(tasks, t)
           was == {q \in cascaded : q[1] = t}
       IN  IF r[1] = 200
           THEN Observe(View("task", r[2].boardId, 200, {t}, {}))
           ELSE \/ \E q \in was : Observe(View("task", q[2], 404, {}, {t}))
                \/ was = {} /\ Observe(View("task", <<>>, 404, {}, {}))

\* ------------------------------------------------------------------ inputs
TitleA == Str(<<"a">>)
TitleB == Str(<<"b">>)
Blank == Str(<<" ">>)
DescD == Str(<<"d">>)
UserU == Str(<<"u">>)
Year == Str(<<"2", "0", "2", "6">>)
NotADate == Str(<<"x">>)
NameN == Str(<<"n">>)

\* Ids a request may name: every id the table can hand out, and one it never
\* hands out.
BoardRefs == BoardIds \cup {ghost}
TaskRefs == TaskIds \cup {ghost}

TaskBase(b) == [NoBody EXCEPT !.boardId = Str(b), !.title = TitleA]

\* Bodies of the interleaving specification: valid requests only.
ConcPostBodies == {TaskBase(b) : b \in BoardRefs}
ConcPatchBodies == {[NoBody EXCEPT !.status = Str(done)]}
ConcBoardBodies == {[NoBody EXCEPT !.name = NameN]}

\* -------------------------------------------------------------- board page
\* The Board the page shows: its route parameter.
boardId == BoardId(1)

\* x || d
Or(x, d) == IF Truthy(x) THEN x ELSE d

\* `temp-${Date.now()}`
optimisticId(now) == <<"temp", ToString(now)>>

\* What the create form submits: a trimmed, non-empty title; the fields left
\* empty are undefined.
FormData == {[NoBody EXCEPT !.title = TitleA]}

\* The placeholder handleCreateTask shows for the form's data.
optimisticTask(data, now) ==
    TaskJson(optimisticId(now),
             [boardId |-> boardId,
              title |-> data.title,
              description |-> Or(data.description, Null),
              status |-> Str(todo),
              priority |-> Or(data.priority, Null),
              assignedTo |-> Or(data.assignedTo, Null),
              dueDate |-> IF Truthy(data.dueDate) THEN NewDate(data.dueDate) ELSE Null])

\* The body handleCreateTask posts: JSON.stringify drops the undefined keys.
CreateBody(data) ==
    [NoBody EXCEPT !.boardId = Str(boardId), !.title = data.title,
                   !.description = data.description, !.priority = data.priority,
                   !.assignedTo = data.assignedTo, !.dueDate = data.dueDate]

\* Array helpers over the local task list.
Ids(list) == {list[i].id : i \in DOMAIN list}
Find(list, id) == list[CHOOSE i \in DOMAIN list : list[i].id = id]
Filter(list, id) == SelectSeq(list, LAMBDA t : t.id # id)
\* A map that puts the replaced entry first.
MapReplaceFirst(list, id, new) == <<new>> \o Filter(list, id)
MapReplace(list, id, new) == [i \in DOMAIN list |-> IF list[i].id = id THEN new ELSE list[i]]
MapStatus(list, id, st) ==
    [i \in DOMAIN list |-> IF list[i].id = id THEN [list[i] EXCEPT !.status = st] ELSE list[i]]

\* A handler suspended at its fetch.
Fetch(kind, id, body, saved, before) ==
    [kind |-> kind, id |-> id, body |-> body, saved |-> saved, resp |-> NoResp,
     phase |-> "pending", before |-> before]

\* A connection no handler is waiting on.
Free(c) == fetches[c].phase # "pending"

\* The request of the handler on connection c has not reached the server.
NotSent(c) ==
    /\ fetches[c].phase = "pending"
    /\ fetches[c].resp = NoResp
    /\ reqs[c] = Idle
    /\ last.client # c

\* The dialog of the page is closed: its overlay does not cover the cards and
\* the form.
DialogClosed == page.deletingTaskId = NoId /\ page.editingTask = Null

StoreUnchanged == UNCHANGED <<boards, tasks, nextBoard, nextTask, reqs, last, cascaded, view>>

\* All orders of a set of Task ids, as lists of their JSON.
Orders(ts, S) ==
    {seq \in [1..Cardinality(S) -> {TaskJson(t, ts[t]) : t \in S}] :
        \A i, j \in DOMAIN seq : i # j => seq[i] # seq[j]}

\* The board page opens from the Board's card on the dashboard, whose
\* handlers have all returned.  fetchBoard on mount: GET /api/boards/[id]; the
\* Board's tasks come in the order the store returns them.
fetchBoard ==
    /\ page.isLoading
    /\ ~dashboard.isLoading
    /\ dashboard.deleteConfirm = NoId
    /\ boardId \in Ids(dashboard.boards)
    /\ \A c \in Clients : Free(c)
    /\ BoardFindUnique(boards, tasks, boardId)[1] = 200
    /\ \E list \in Orders(tasks, BoardFindUnique(boards, tasks, boardId)[2]) :
          page' = [page EXCEPT !.isLoading = FALSE, !.tasks = list]
    /\ dashboard' = NoDashboard
    /\ fetches' = [c \in Clients |-> NoFetch]
    /\ StoreUnchanged

\* handleCreateTask up to its fetch: the placeholder is appended.
handleCreateTask(c, data, cap) ==
    /\ ~page.isLoading
    /\ DialogClosed
    /\ ~page.formIsLoading
    /\ Free(c)
    /\ page.now < cap
    /\ page' = [page EXCEPT !.tasks = Append(@, optimisticTask(data, page.now + 1)),
                            !.formIsLoading = TRUE,
                            !.now = @ + 1]
    /\ fetches' = [fetches EXCEPT ![c] =
                       Fetch("create", optimisticId(page.now + 1), CreateBody(data), Null,
                             page.tasks)]
    /\ UNCHANGED dashboard
    /\ StoreUnchanged

\* handleStatusChange up to its fetch: the card shows the new status.
handleStatusChange(c, taskId, newStatus) ==
    /\ ~page.isLoading
    /\ DialogClosed
    /\ Free(c)
    /\ taskId \in Ids(page.tasks)
    /\ Find(page.tasks, taskId).status # newStatus
    /\ page' = [page EXCEPT !.tasks = MapStatus(@, taskId, newStatus)]
    /\ fetches' = [fetches EXCEPT ![c] =
                       Fetch("status", taskId, [NoBody EXCEPT !.status = newStatus],
                             Find(page.tasks, taskId).status, page.tasks)]
    /\ UNCHANGED dashboard
    /\ StoreUnchanged

\* handleEditClick: the modal opens on the Task's card.
handleEditClick(task) ==
    /\ ~page.isLoading
    /\ DialogClosed
    /\ page' = [page EXCEPT !.editingTask = task]
    /\ UNCHANGED <<dashboard, fetches>>
    /\ StoreUnchanged

\* handleEditCancel: the modal closes.
handleEditCancel ==
    /\ page.editingTask # Null
    /\ ~page.isEditLoading
    /\ page' = [page EXCEPT !.editingTask = Null]
    /\ UNCHANGED <<dashboard, fetches>>
    /\ StoreUnchanged

\* Titles typed into the edit form.
EditTitles == {TitleB}

\* The body handleEditSubmit sends: the form as handleEditClick filled it from
\* the Task, with the title typed; an empty field goes as null.
EditBody(task, title) ==
    [NoBody EXCEPT !.title = title,
                   !.description = Or(task.description, Null),
                   !.priority = Or(task.priority, Null),
                   !.assignedTo = Or(task.assignedTo, Null),
                   !.dueDate = Null,
                   !.status = task.status]

\* handleEditSubmit up to its fetch: the list is left as it is.
handleEditSubmit(c, title) ==
    /\ page.editingTask # Null
    /\ ~page.isEditLoading
    /\ Free(c)
    /\ page' = [page EXCEPT !.isEditLoading = TRUE]
    /\ fetches' = [fetches EXCEPT ![c] =
                       Fetch("edit", page.editingTask.id, EditBody(page.editingTask, title),
                             Null, page.tasks)]
    /\ UNCHANGED dashboard
    /\ StoreUnchanged

\* handleDeleteClick: the dialog opens for the Task.
handleDeleteClick(taskId) ==
    /\ ~page.isLoading
    /\ DialogClosed
    /\ taskId \in Ids(page.tasks)
    /\ page' = [page EXCEPT !.deletingTaskId = taskId]
    /\ UNCHANGED <<dashboard, fetches>>
    /\ StoreUnchanged

\* Mutant of handleDeleteCancel: closing the dialog takes the Task off the
\* list.
handleDeleteCancelRemoves ==
    /\ ~DialogClosed
    /\ ~page.isDeleteLoading
    /\ page' = [page EXCEPT !.deletingTaskId = NoId,
                            !.tasks = Filter(@, page.deletingTaskId)]
    /\ UNCHANGED <<dashboard, fetches>>
    /\ StoreUnchanged

\* handleDeleteCancel: the dialog closes.
handleDeleteCancel ==
    /\ ~DialogClosed
    /\ ~page.isDeleteLoading
    /\ page' = [page EXCEPT !.deletingTaskId = NoId]
    /\ UNCHANGED <<dashboard, fetches>>
    /\ StoreUnchanged

\* handleDeleteConfirm up to its fetch: the Task leaves the list.
handleDeleteConfirm(c) ==
    /\ ~DialogClosed
    /\ ~page.isDeleteLoading
    /\ Free(c)
    /\ page.deletingTaskId \in Ids(page.tasks)
    /\ page' = [page EXCEPT !.tasks = Filter(@, page.deletingTaskId),
                            !.isDeleteLoading = TRUE]
    /\ fetches' = [fetches EXCEPT ![c] =
                       Fetch("delete", page.deletingTaskId, NoBody,
                             Find(page.tasks, page.deletingTaskId), page.tasks)]
    /\ UNCHANGED dashboard
    /\ StoreUnchanged

\* response.ok
ok(resp) == resp.code \in 200..299

\* The record of a handler that has run to its end: how it ended.
Settled(f, outcome) == [NoFetch EXCEPT !.kind = f.kind, !.id = f.id, !.phase = outcome]

\* A handler that resumes only after a response that is ok.
ResumesOkOnly(c, kind) ==
    /\ fetches[c].phase = "pending"
    /\ fetches[c].kind = kind
    /\ fetches[c].resp # NoResp
    /\ fetches[c].resp.code \in 200..299

\* The handler on connection c resumes after its fetch.
Resumes(c, kind) ==
    /\ fetches[c].phase = "pending"
    /\ fetches[c].kind = kind
    /\ fetches[c].resp # NoResp

\* handleCreateTask after its fetch: the placeholder is replaced by the
\* server's Task, or filtered out in the catch; the form's finally follows.
handleCreateTaskSettle(c) ==
    /\ Resumes(c, "create")
    /\ LET f == fetches[c]
       IN  IF ok(f.resp)
           THEN /\ page' = [page EXCEPT !.tasks = MapReplace(@, f.id, f.resp.task),
                                        !.formIsLoading = FALSE]
                /\ fetches' = [fetches EXCEPT ![c] = Settled(f, "confirmed")]
           ELSE /\ page' = [page EXCEPT !.tasks = Filter(@, f.id),
                                        !.formIsLoading = FALSE]
                /\ fetches' = [fetches EXCEPT ![c] = Settled(f, "rolledBack")]
    /\ UNCHANGED dashboard
    /\ StoreUnchanged

\* handleStatusChange after its fetch: the card takes the server's Task, or
\* its previous status in the catch.
handleStatusChangeSettle(c) ==
    /\ Resumes(c, "status")
    /\ LET f == fetches[c]
       IN  IF ok(f.resp)
           THEN /\ page' = [page EXCEPT !.tasks = MapReplace(@, f.id, f.resp.task)]
                /\ fetches' = [fetches EXCEPT ![c] = Settled(f, "confirmed")]
           ELSE /\ page' = [page EXCEPT !.tasks = MapStatus(@, f.id, f.saved)]
                /\ fetches' = [fetches EXCEPT ![c] = Settled(f, "rolledBack")]
    /\ UNCHANGED dashboard
    /\ StoreUnchanged

\* handleDeleteConfirm after its fetch: nothing more on success, the Task is
\* appended again in the catch; the finally closes the dialog.
handleDeleteConfirmSettle(c) ==
    /\ Resumes(c, "delete")
    /\ LET f == fetches[c]
       IN  IF ok(f.resp)
           THEN /\ page' = [page EXCEPT !.isDeleteLoading = FALSE, !.deletingTaskId = NoId]
                /\ fetches' = [fetches EXCEPT ![c] = Settled(f, "confirmed")]
           ELSE /\ page' = [page EXCEPT !.tasks = Append(@, f.saved),
                                        !.isDeleteLoading = FALSE,
                                        !.deletingTaskId = NoId]
                /\ fetches' = [fetches EXCEPT ![c] = Settled(f, "rolledBack")]
    /\ UNCHANGED dashboard
    /\ StoreUnchanged

\* handleEditSubmit after its fetch: the card takes the server's Task and the
\* modal closes, or the modal shows the error; the finally follows.
handleEditSubmitSettle(c) ==
    /\ Resumes(c, "edit")
    /\ LET f == fetches[c]
       IN  IF ok(f.resp)
           THEN /\ page' = [page EXCEPT !.tasks = MapReplace(@, f.id, f.resp.task),
                                        !.editingTask = Null,
                                        !.isEditLoading = FALSE]
                /\ fetches' = [fetches EXCEPT ![c] = Settled(f, "confirmed")]
           ELSE /\ page' = [page EXCEPT !.isEditLoading = FALSE]
                /\ fetches' = [fetches EXCEPT ![c] = Settled(f, "rolledBack")]
    /\ UNCHANGED dashboard
    /\ StoreUnchanged

\* --------------------------------------------------------------- dashboard
\* GET /api/boards: the Boards, latest created first.
BoardFindMany(bs, n) ==
    LET desc == [i \in 1..n |-> BoardId(n + 1 - i)]
        kept == SelectSeq(desc, LAMBDA b : b \in DOMAIN bs)
    IN  [i \in DOMAIN kept |-> ("id" :> kept[i]) @@ bs[kept[i]]]

\* fetchBoards on mount.
fetchBoards ==
    /\ dashboard.isLoading
    /\ page.isLoading
    /\ dashboard' = [dashboard EXCEPT !.isLoading = FALSE,
                                      !.boards = BoardFindMany(boards, nextBoard)]
    /\ UNCHANGED <<page, fetches>>
    /\ StoreUnchanged

\* The dialog of the dashboard is closed.
DashboardDialogClosed == dashboard.deleteConfirm = NoId

\* Board creates the dashboard has in flight.
PendingBoards ==
    Cardinality({c \in Clients : fetches[c].phase = "pending" /\ fetches[c].kind = "createBoard"})

\* handleCreateBoard up to its fetch: nothing is shown yet.
handleCreateBoard(c, data, cap) ==
    /\ ~dashboard.isLoading
    /\ DashboardDialogClosed
    /\ ~dashboard.formIsLoading
    /\ Free(c)
    /\ nextBoard + PendingBoards < cap
    /\ dashboard' = [dashboard EXCEPT !.formIsLoading = TRUE]
    /\ fetches' = [fetches EXCEPT ![c] = Fetch("createBoard", <<>>, data, Null, dashboard.boards)]
    /\ UNCHANGED page
    /\ StoreUnchanged

\* handleCreateBoard after its fetch: the new Board is put first, or the error
\* is thrown to the form; the form's finally follows.
handleCreateBoardSettle(c) ==
    /\ Resumes(c, "createBoard")
    /\ LET f == fetches[c]
       IN  IF ok(f.resp)
           THEN /\ dashboard' = [dashboard EXCEPT !.boards = <<f.resp.task>> \o @,
                                                  !.formIsLoading = FALSE]
                /\ fetches' = [fetches EXCEPT ![c] = Settled(f, "confirmed")]
           ELSE /\ dashboard' = [dashboard EXCEPT !.formIsLoading = FALSE]
                /\ fetches' = [fetches EXCEPT ![c] = Settled(f, "rolledBack")]
    /\ UNCHANGED page
    /\ StoreUnchanged

\* Dashboard handleDeleteClick: the dialog opens for the Board.
Dashboard_handleDeleteClick(id) ==
    /\ ~dashboard.isLoading
    /\ DashboardDialogClosed
    /\ id \in Ids(dashboard.boards)
    /\ dashboard' = [dashboard EXCEPT !.deleteConfirm = id]
    /\ UNCHANGED <<page, fetches>>
    /\ StoreUnchanged

\* Dashboard handleDeleteCancel: the dialog closes.
Dashboard_handleDeleteCancel ==
    /\ ~DashboardDialogClosed
    /\ dashboard' = [dashboard EXCEPT !.deleteConfirm = NoId]
    /\ UNCHANGED <<page, fetches>>
    /\ StoreUnchanged

\* Dashboard handleDeleteConfirm up to its fetch: the Board leaves the list,
\* the dialog closes, previousBoards is kept.
Dashboard_handleDeleteConfirm(c) ==
    /\ ~DashboardDialogClosed
    /\ Free(c)
    /\ dashboard' = [dashboard EXCEPT !.boards = Filter(@, dashboard.deleteConfirm),
                                      !.deleteConfirm = NoId]
    /\ fetches' = [fetches EXCEPT ![c] =
                       Fetch("deleteBoard", dashboard.deleteConfirm, NoBody,
                             [previousBoards |-> dashboard.boards], dashboard.boards)]
    /\ UNCHANGED page
    /\ StoreUnchanged

\* Dashboard handleDeleteConfirm after its fetch: nothing more on success,
\* previousBoards is put back in the catch.
Dashboard_handleDeleteConfirmSettle(c) ==
    /\ Resumes(c, "deleteBoard")
    /\ LET f == fetches[c]
       IN  IF ok(f.resp)
           THEN /\ dashboard' = dashboard
                /\ fetches' = [fetches EXCEPT ![c] = Settled(f, "confirmed")]
           ELSE /\ dashboard' = [dashboard EXCEPT !.boards = f.saved.previousBoards]
                /\ fetches' = [fetches EXCEPT ![c] = Settled(f, "rolledBack")]
    /\ UNCHANGED page
    /\ StoreUnchanged

\* ------------------------------------------------------ pages and the server
\* The request of a suspended handler reaches its route handler.
Serve(c, taskCap, boardCap) ==
    /\ NotSent(c)
    /\ LET f == fetches[c]
       IN  CASE f.kind = "create" -> TaskPostLookup(c, f.body, taskCap)
             [] f.kind = "status" -> TaskPatchLookup(c, f.id, f.body)
             [] f.kind = "edit" -> TaskPatchLookup(c, f.id, f.body)
             [] f.kind = "delete" -> TaskDeleteLookup(c, f.id)
             [] f.kind = "createBoard" -> BoardPost(c, f.body, boardCap)
             [] f.kind = "deleteBoard" -> BoardDeleteLookup(c, f.id)

\* The route handler of the request on connection c makes its write.
ServeWrite(c) ==
    \/ TaskPostWrite(c)
    \/ TaskPatchWrite(c)
    \/ TaskDeleteWrite(c)
    \/ BoardDeleteWrite(c)

\* fetch rejects: the request never reached the server.
NetworkError == [NoResp EXCEPT !.op = "network"]

FetchFails(c) ==
    /\ NotSent(c)
    /\ fetches' = [fetches EXCEPT ![c].resp = NetworkError]
    /\ UNCHANGED <<page, dashboard>>
    /\ StoreUnchanged

\* The response of the latest step reaches the handler waiting for it.
Receive ==
    /\ last # NoResp
    /\ fetches[last.client].phase = "pending"
    /\ fetches' = [fetches EXCEPT ![last.client].resp = last]
    /\ last' = NoResp
    /\ UNCHANGED <<boards, tasks, nextBoard, nextTask, reqs, cascaded, view, page, dashboard>>

\* A handler resumes after its fetch.
Settle(c) ==
    \/ handleCreateTaskSettle(c)
    \/ handleStatusChangeSettle(c)
    \/ handleDeleteConfirmSettle(c)
    \/ handleCreateBoardSettle(c)
    \/ Dashboard_handleDeleteConfirmSettle(c)

\* ----------------------------------------------------------- specification
\* Two clients whose requests interleave at the store.
Next ==
    \/ \E c \in Clients, body \in ConcBoardBodies : BoardPost(c, body, MaxBoards)
    \/ \E c \in Clients, id \in BoardRefs : BoardDeleteLookup(c, id)
    \/ \E c \in Clients : BoardDeleteWrite(c)
    \/ \E c \in Clients, body \in ConcPostBodies : TaskPostLookup(c, body, MaxTasks)
    \/ \E c \in Clients : TaskPostWrite(c)
    \/ \E c \in Clients, id \in TaskRefs, body \in ConcPatchBodies :
          TaskPatchLookup(c, id, body)
    \/ \E c \in Clients : TaskPatchWrite(c)
    \/ \E c \in Clients, id \in TaskRefs : TaskDeleteLookup(c, id)
    \/ \E c \in Clients : TaskDeleteWrite(c)
    \/ Deliver

Spec == Init /\ [][Next]_vars

\* A client creating and deleting Boards and Tasks, a second client deleting
\* Boards, and a reader.
ReadBoardIds == {BoardId(n) : n \in 1..ReadBoards}
ReadTaskIds == {TaskId(n) : n \in 1..ReadTasks}
NextRead ==
    \/ \E body \in ConcBoardBodies : BoardPost(Writer, body, ReadBoards)
    \/ \E c \in Clients, id \in ReadBoardIds : BoardDeleteLookup(c, id)
    \/ \E c \in Clients : BoardDeleteWrite(c)
    \/ \E b \in ReadBoardIds : TaskPostLookup(Writer, TaskBase(b), ReadTasks)
    \/ TaskPostWrite(Writer)
    \/ \E id \in ReadTaskIds : TaskDeleteLookup(Writer, id)
    \/ TaskDeleteWrite(Writer)
    \/ Deliver
    \/ \E b \in ReadBoardIds : ReadBoard(b)
    \/ \E b \in ReadBoardIds : ReadList(b)
    \/ \E t \in ReadTaskIds : ReadTask(t)

SpecRead == Init /\ [][NextRead]_vars

\* One client, one request at a time; the bodies vary in the keys the handlers
\* validate: boardId, title, status, priority.
InBoardRefs == {BoardId(n) : n \in 1..InBoards} \cup {ghost}
InTaskRefs == {TaskId(n) : n \in 1..InTasks} \cup {ghost}

InPostBodies ==
    {TaskBase(b) : b \in InBoardRefs}
    \cup {[TaskBase(b) EXCEPT !.status = x] :
            b \in InBoardRefs,
            x \in {Null, EmptyStr, Num0, False, Str(in_progress), Str(urgent)}}
    \cup {[TaskBase(b) EXCEPT !.priority = x] :
            b \in InBoardRefs, x \in {Null, EmptyStr, Num0, Str(low), Str(urgent)}}
    \cup {[TaskBase(b) EXCEPT !.title = x] :
            b \in InBoardRefs, x \in {Undef, Null, EmptyStr, Blank, Num0, Num5}}
    \cup {[TaskBase(ghost) EXCEPT !.boardId = x] : x \in {Undef, Null, EmptyStr, Num5}}
    \cup {[TaskBase(ghost) EXCEPT !.boardId = Undef, !.status = Str(urgent)],
          [TaskBase(ghost) EXCEPT !.title = Undef, !.priority = Str(urgent)]}

InPatchBodies ==
    {NoBody}
    \cup {[NoBody EXCEPT !.status = x] :
            x \in {Str(in_progress), Str(urgent), EmptyStr, Num0, Null}}
    \cup {[NoBody EXCEPT !.priority = x] :
            x \in {Str(low), Str(urgent), EmptyStr, Num0, Null}}
    \cup {[NoBody EXCEPT !.title = x] : x \in {TitleB, EmptyStr, Blank, Null, Num5}}

InBoardBodies ==
    {[NoBody EXCEPT !.name = x] :
        x \in {Undef, Num5, EmptyStr, Blank, NameN, Str(<<" ", "n", " ">>)}}
    \cup {[NoBody EXCEPT !.name = NameN, !.color = Num5]}

NextInput ==
    \/ \E body \in InBoardBodies : BoardPost(Writer, body, InBoards)
    \/ \E id \in InBoardRefs : BoardDeleteLookup(Writer, id)
    \/ BoardDeleteWrite(Writer)
    \/ \E body \in InPostBodies : TaskPostLookup(Writer, body, InTasks)
    \/ TaskPostWrite(Writer)
    \/ \E id \in InTaskRefs, body \in InPatchBodies : TaskPatchLookup(Writer, id, body)
    \/ TaskPatchWrite(Writer)
    \/ \E id \in InTaskRefs : TaskDeleteLookup(Writer, id)
    \/ TaskDeleteWrite(Writer)
    \/ Deliver

SpecInput == Init /\ [][NextInput]_vars

\* One client, one request at a time, Tasks on the first Board; the patches
\* vary in which of the six updatable keys they carry.
PatchFields == {"title", "description", "status", "priority", "assignedTo", "dueDate"}

PatchBodies ==
    {NoBody,
     [NoBody EXCEPT !.title = TitleB],
     [NoBody EXCEPT !.title = TitleA],
     [NoBody EXCEPT !.description = DescD, !.status = Str(done)],
     [NoBody EXCEPT !.description = Null, !.status = Str(todo)],
     [NoBody EXCEPT !.priority = Str(low), !.assignedTo = UserU],
     [NoBody EXCEPT !.priority = Null, !.assignedTo = Null],
     [NoBody EXCEPT !.dueDate = Year],
     [NoBody EXCEPT !.dueDate = Null],
     [NoBody EXCEPT !.dueDate = EmptyStr],
     [NoBody EXCEPT !.dueDate = NotADate],
     [NoBody EXCEPT !.title = TitleB, !.description = DescD, !.status = Str(done),
                    !.priority = Str(low), !.assignedTo = UserU, !.dueDate = Year]}

PatchTaskIds == {TaskId(n) : n \in 1..PatchTasks}

NextPatch ==
    \/ BoardPost(Writer, [NoBody EXCEPT !.name = NameN], InBoards)
    \/ TaskPostLookup(Writer, TaskBase(BoardId(1)), PatchTasks)
    \/ TaskPostWrite(Writer)
    \/ \E id \in PatchTaskIds, body \in PatchBodies : TaskPatchLookup(Writer, id, body)
    \/ TaskPatchWrite(Writer)
    \/ Deliver

SpecPatch == Init /\ [][NextPatch]_vars

\* One client, one request at a time, updating and deleting Tasks; every
\* patch is a status of the enumeration.
StatusBodies == {[NoBody EXCEPT !.status = validStatuses[i]] : i \in DOMAIN validStatuses}
StatusTaskIds == {TaskId(n) : n \in 1..StatusTasks}

NextStatus ==
    \/ BoardPost(Writer, [NoBody EXCEPT !.name = NameN], InBoards)
    \/ TaskPostLookup(Writer, TaskBase(BoardId(1)), StatusTasks)
    \/ TaskPostWrite(Writer)
    \/ \E id \in StatusTaskIds, body \in StatusBodies : TaskPatchLookup(Writer, id, body)
    \/ TaskPatchWrite(Writer)
    \/ \E id \in StatusTaskIds : TaskDeleteLookup(Writer, id)
    \/ TaskDeleteWrite(Writer)
    \/ Deliver

SpecStatus == Init /\ [][NextStatus]_vars

\* Two clients updating and deleting the same Tasks, their existence checks
\* and writes interleaving: patches of the same key, of different keys, and
\* one that carries keys PATCH does not destructure.
RaceBodies ==
    {[NoBody EXCEPT !.status = Str(done)],
     [NoBody EXCEPT !.status = Str(in_progress)],
     [NoBody EXCEPT !.title = TitleB],
     [NoBody EXCEPT !.priority = Str(low), !.id = Str(ghost), !.boardId = Str(ghost),
                    !.createdAt = Year]}
RaceTaskIds == {TaskId(n) : n \in 1..RaceTasks}

NextRace ==
    \/ BoardPost(Writer, [NoBody EXCEPT !.name = NameN], InBoards)
    \/ TaskPostLookup(Writer, TaskBase(BoardId(1)), RaceTasks)
    \/ TaskPostWrite(Writer)
    \/ \E c \in Clients, id \in RaceTaskIds, body \in RaceBodies : TaskPatchLookup(c, id, body)
    \/ \E c \in Clients : TaskPatchWrite(c)
    \/ \E c \in Clients, id \in RaceTaskIds : TaskDeleteLookup(c, id)
    \/ \E c \in Clients : TaskDeleteWrite(c)
    \/ Deliver

SpecRace == Init /\ [][NextRace]_vars

\* The dashboard and the board page of one browser tab, and the server behind
\* them.
BoardForms == {[NoBody EXCEPT !.name = NameN]}

\* The connections the tab's handlers use: one handler at a time.
Tab == {Writer}

NextUi ==
    \/ fetchBoards
    \/ \E c \in Tab, data \in BoardForms : handleCreateBoard(c, data, DashBoards)
    \/ \E id \in BoardIds : Dashboard_handleDeleteClick(id)
    \/ Dashboard_handleDeleteCancel
    \/ \E c \in Tab : Dashboard_handleDeleteConfirm(c)
    \/ fetchBoard
    \/ \E c \in Tab, data \in FormData : handleCreateTask(c, data, PageTasks)
    \/ \E c \in Tab, i \in DOMAIN page.tasks, j \in DOMAIN validStatuses :
          handleStatusChange(c, page.tasks[i].id, validStatuses[j])
    \/ \E i \in DOMAIN page.tasks : handleDeleteClick(page.tasks[i].id)
    \/ handleDeleteCancel
    \/ \E c \in Tab : handleDeleteConfirm(c)
    \/ \E c \in Tab : Serve(c, PageTasks, DashBoards)
    \/ \E c \in Tab : ServeWrite(c)
    \/ \E c \in Tab : FetchFails(c)
    \/ Receive
    \/ \E c \in Tab : Settle(c)

\* The event loop resumes a handler whose fetch has settled.
SpecUi == Init /\ [][NextUi]_vars /\ \A c \in Tab : WF_vars(Settle(c))

\* The same tab with its handlers overlapping: a second handler starts on the
\* other connection while the first waits for its response, and the responses
\* come back in either order.
NextOverlap ==
    \/ fetchBoards
    \/ \E c \in Clients, data \in BoardForms : handleCreateBoard(c, data, OverlapBoards)
    \/ \E id \in BoardIds : Dashboard_handleDeleteClick(id)
    \/ Dashboard_handleDeleteCancel
    \/ \E c \in Clients : Dashboard_handleDeleteConfirm(c)
    \/ fetchBoard
    \/ \E c \in Clients, data \in FormData : handleCreateTask(c, data, OverlapTasks)
    \/ \E c \in Clients, i \in DOMAIN page.tasks, j \in DOMAIN validStatuses :
          handleStatusChange(c, page.tasks[i].id, validStatuses[j])
    \/ \E i \in DOMAIN page.tasks : handleDeleteClick(page.tasks[i].id)
    \/ handleDeleteCancel
    \/ \E c \in Clients : handleDeleteConfirm(c)
    \/ \E c \in Clients : Serve(c, OverlapTasks, OverlapBoards)
    \/ \E c \in Clients : ServeWrite(c)
    \/ \E c \in Clients : FetchFails(c)
    \/ Receive
    \/ \E c \in Clients : Settle(c)

SpecOverlap == Init /\ [][NextOverlap]_vars

\* The same tab, with the edit modal of the board page.
NextEdit ==
    \/ NextUi
    \/ \E i \in DOMAIN page.tasks : handleEditClick(page.tasks[i])
    \/ handleEditCancel
    \/ \E c \in Tab, title \in EditTitles : handleEditSubmit(c, title)
    \/ \E c \in Tab : handleEditSubmitSettle(c)

SpecEdit == Init /\ [][NextEdit]_vars

\* ------------------------------------------------------------------ claims
\* Boards that existed and were deleted: ids handed out and no longer present.
DeletedBoards == IssuedBoards \ DOMAIN boards

\* C1: in every reachable store state every Task's boardId is the id of a
\* Board that exists, under any interleaving of task create, update, delete
\* and board delete.
C1_NoOrphanTask == \A t \in DOMAIN tasks : tasks[t].boardId \in DOMAIN boards

\* C1 witness: a create passed its Board check, the Board was deleted before
\* the insert, and the insert was refused.
C1_Witness ==
    /\ last.op = "createTask"
    /\ last.code = 500
    /\ last.body.boardId.v \in DeletedBoards

\* The step of a successful Board delete removes every Task of that Board and
\* leaves the Tasks of the other Boards as they were.
C2_DeleteStep ==
    (last'.op = "deleteBoard" /\ last'.code = 200) =>
        LET b == last'.id
        IN  /\ TaskFindMany(tasks', b) = {}
            /\ \A t \in DOMAIN tasks :
                  IF tasks[t].boardId = b
                  THEN TaskFindUnique(tasks', t)[1] = 404
                  ELSE TaskFindUnique(tasks', t) = <<200, tasks[t]>>
            /\ DOMAIN tasks' \subseteq DOMAIN tasks

\* In every later state the list of a deleted Board is empty and the Tasks its
\* delete removed are not found.
C2_After ==
    /\ \A b \in DeletedBoards : TaskFindMany(tasks, b) = {}
    /\ \A q \in cascaded : TaskFindUnique(tasks, q[1])[1] = 404

\* C2: after DeleteBoard(b) succeeds no Task with boardId = b is retrievable
\* (List(b) is empty, Get(t) is not-found for every Task that belonged to b),
\* and the Tasks of every other Board are unchanged.
C2_CascadeComplete == [][C2_DeleteStep]_vars /\ []C2_After

\* C2 witness: a Board delete has just succeeded, it removed a Task, and a
\* Task of another Board is still stored.
C2_Witness ==
    /\ last.op = "deleteBoard"
    /\ last.code = 200
    /\ cascaded # {}
    /\ \E t \in DOMAIN tasks : tasks[t].boardId # last.id

\* What a read shows about its Board.
SeesBoardGone(v) == v.kind = "board" /\ v.code = 404
SeesBoardPresent(v) == v.kind = "board" /\ v.code = 200
SeesTaskPresent(v) == v.tasks # {}
SeesTaskLost(v) == v.lost # {}

\* Two reads of one Board, v before w, that show a partial delete: the Board
\* gone and then one of its Tasks present, or Tasks removed by the delete and
\* then the Board present.
PartialDelete(v, w) ==
    /\ v.kind # "none"
    /\ v.board = w.board
    /\ \/ SeesBoardGone(v) /\ SeesTaskPresent(w)
       \/ SeesTaskLost(v) /\ SeesBoardPresent(w)

\* A Board delete that answers an error removed nothing.
C3_ErrorStep ==
    (last'.op = "deleteBoard" /\ last'.code # 200) =>
        (boards' = boards /\ tasks' = tasks)

\* C3: DeleteBoard is atomic for every caller: no read shows the Board present
\* with Tasks already removed by the delete, no two reads in sequence show the
\* Board gone and then a Task of it, or Tasks removed by the delete and then
\* the Board; and a DeleteBoard that returns an error has removed neither the
\* Board nor any Task.
C3_DeleteAtomic ==
    /\ [][~PartialDelete(view, view') /\ C3_ErrorStep]_vars
    /\ [](~(SeesBoardPresent(view) /\ SeesTaskLost(view)))

\* C3 witness: the reader saw a Board with a Task, a delete of that Board has
\* since removed the Task, and a second delete of the Board answered an error.
C3_Witness ==
    /\ SeesBoardPresent(view)
    /\ SeesTaskPresent(view)
    /\ view.board \in DeletedBoards
    /\ LostOf(view.board) # {}
    /\ last.op = "deleteBoard"
    /\ last.code = 500

\* C4: in every reachable store state every Task's status is one of todo,
\* in_progress, done and its priority is null or one of low, medium, high,
\* whatever values were supplied to create and update.
C4_EnumsClosed ==
    \A t \in DOMAIN tasks :
        /\ Includes(validStatuses, tasks[t].status)
        /\ tasks[t].priority = Null \/ Includes(validPriorities, tasks[t].priority)

\* The step answers a task create with 201.
Created == last'.op = "createTask" /\ last'.code = 201

\* C5 as claimed: every Task inserted by create has status todo, whatever the
\* request body.
C5_AlwaysTodo == [][Created => tasks'[last'.id].status = Str(todo)]_vars

\* C5 as amended: a Task inserted by a create whose body has no status (absent
\* or null) has status todo; a create whose body gives a status of the
\* enumeration inserts the Task with that status.
C5_TodoByDefault ==
    [][Created =>
        LET st == last'.body.status
            row == tasks'[last'.id]
        IN  /\ st \in {Undef, Null} => row.status = Str(todo)
            /\ Includes(validStatuses, st) => row.status = st]_vars

\* C5 witness: creates without a status and with status in_progress were
\* answered 201.
C5_Witness ==
    /\ last.op = "createTask"
    /\ last.code = 201
    /\ last.body.status = Null
    /\ tasks[last.id].status = Str(todo)

\* A status or priority value outside its enumeration.
OutsideEnum(x, enum) == Given(x) /\ x # Null /\ ~Includes(enum, x)

\* C6: for every status or priority value outside its enumeration, create and
\* update answer 400 Invalid status / Invalid priority and the store is the
\* same before and after, whatever the other arguments.
C6_InvalidEnumRejected ==
    [][(/\ last'.op \in {"createTask", "updateTask"}
        /\ \/ OutsideEnum(last'.body.status, validStatuses)
           \/ OutsideEnum(last'.body.priority, validPriorities))
       => /\ last'.code = 400
          /\ last'.error \in {"Invalid status", "Invalid priority"}
          /\ tasks' = tasks
          /\ boards' = boards]_vars

\* The boardId of a create does not resolve to a Board row.
Unresolved(x, bs) == ~(IsText(x) /\ x.v \in DOMAIN bs)

AtLookup == reqs[last'.client].op = "idle"

Updated == last'.op = "updateTask" /\ last'.code = 200

\* Every Task but t, and every Board, is as before the step.
OthersUnchanged(t) ==
    /\ boards' = boards
    /\ DOMAIN tasks' = DOMAIN tasks
    /\ \A x \in DOMAIN tasks \ {t} : tasks'[x] = tasks[x]
    /\ tasks'[t].boardId = tasks[t].boardId

\* The stored form of a supplied value: a dueDate is stored as its Date.
Supplied(f, x) == IF f = "dueDate" /\ x # Null THEN NewDate(x) ELSE x

\* C8 as claimed: after a successful update each of the six fields absent from
\* the patch is as before and each field present has the supplied value; all
\* other Tasks and all Boards are unchanged.
C8_PatchExact ==
    [][Updated =>
        LET t == last'.id
            p == last'.body
        IN  /\ \A f \in PatchFields :
                  tasks'[t][f] = IF Given(p[f]) THEN Supplied(f, p[f]) ELSE tasks[t][f]
            /\ OthersUnchanged(t)]_vars

\* The stored form of a supplied value, a falsy dueDate clearing the column.
SuppliedOrCleared(f, x) ==
    IF f = "dueDate" THEN (IF Truthy(x) THEN NewDate(x) ELSE Null) ELSE x

\* C8 as amended: as claimed, except that a dueDate present in the patch is
\* stored as its Date when it is truthy and as null when it is falsy (null or
\* the empty string).
C8_PatchFrame ==
    [][Updated =>
        LET t == last'.id
            p == last'.body
        IN  /\ \A f \in PatchFields :
                  tasks'[t][f] =
                      IF Given(p[f]) THEN SuppliedOrCleared(f, p[f]) ELSE tasks[t][f]
            /\ OthersUnchanged(t)]_vars

\* C8 witness: an update carrying only a title succeeded on a Task whose other
\* fields had been set, with a second Task stored.
C8_Witness ==
    /\ last.op = "updateTask"
    /\ last.code = 200
    /\ last.body = [NoBody EXCEPT !.title = TitleB]
    /\ tasks[last.id].title = TitleB
    /\ tasks[last.id].priority = Str(low)
    /\ tasks[last.id].description = DescD
    /\ tasks[last.id].dueDate = NewDate(Year)
    /\ Cardinality(DOMAIN tasks) = 2

\* C9: update and delete of a task id that resolves to no Task (at the
\* handler's lookup) answer 404 Task not found and leave the store unchanged,
\* for every patch.
C9_MissingTask404 ==
    [][(/\ last'.op \in {"updateTask", "deleteTask"}
        /\ AtLookup
        /\ last'.id \notin DOMAIN tasks)
       => /\ last'.code = 404
          /\ last'.error = "Task not found"
          /\ tasks' = tasks
          /\ boards' = boards]_vars

\* C9 witness: an update with an invalid status, of an id that resolves to no
\* Task, was answered 404 while a Task is stored.
C9_Witness ==
    /\ last.op = "updateTask"
    /\ last.code = 404
    /\ last.body.status = Str(urgent)
    /\ last.id \notin DOMAIN tasks
    /\ tasks # <<>>

\* C10: in every reachable store state every Task's title is a string that is
\* non-empty after trimming.
C10_TitleNonEmpty ==
    \A t \in DOMAIN tasks : IsText(tasks[t].title) /\ Trim(tasks[t].title.v) # <<>>

\* A validation failure of create or update: a required field missing, a
\* status or a priority outside its enumeration.
ValidationErrors ==
    {"boardId is required", "title is required", "Invalid status", "Invalid priority"}

\* C11: in create and update every validation failure (missing field, invalid
\* status, invalid priority) is answered before the request has made any store
\* call, read or write.
C11_ValidationBeforeStore ==
    (/\ last.op \in {"createTask", "updateTask"}
     /\ last.code = 400
     /\ last.error \in ValidationErrors)
    => last.calls = 0

\* The step is a List of Board b, made right after a create was answered 201
\* for a Task on Board a.
ListAfterCreate(a, b) ==
    /\ last.op = "createTask"
    /\ last.code = 201
    /\ last.body.boardId.v = a
    /\ view'.kind = "list"
    /\ view'.board = b

\* C12: after a successful create of a Task on Board b an immediately
\* following List(b) succeeds and contains the created Task, and the List of
\* another Board does not contain it.
C12_CreateThenList ==
    [][\A a, b \in ReadBoardIds :
          ListAfterCreate(a, b) =>
              IF a = b
              THEN view'.code = 200 /\ last.id \in view'.tasks
              ELSE last.id \notin view'.tasks]_vars

\* The step answers an update whose patch is exactly {status: x}.
StatusUpdate(x) ==
    /\ last'.op = "updateTask"
    /\ last'.body = [NoBody EXCEPT !.status = x]

\* C17: status transitions are unrestricted: for every existing Task with
\* status s and every s2 of todo, in_progress, done (s2 = s and backward moves
\* included) the update {status: s2} succeeds and the Task's status becomes s2.
C17_AnyTransition ==
    [][\A i \in DOMAIN validStatuses :
          (StatusUpdate(validStatuses[i]) /\ last'.id \in DOMAIN tasks)
          => /\ last'.code = 200
             /\ tasks'[last'.id].status = validStatuses[i]
             /\ last'.task.status = validStatuses[i]]_vars

\* C17 witness: the update {status: todo} of a Task stored as done was
\* answered 200 and the Task is stored as todo.
C17_Witness ==
    /\ last.op = "updateTask"
    /\ last.code = 200
    /\ last.body = [NoBody EXCEPT !.status = Str(todo)]
    /\ last.was.status = Str(done)
    /\ tasks[last.id].status = Str(todo)

\* A Board name as the store must hold it: a non-empty string with no leading
\* or trailing whitespace.
TrimmedName(x) == IsText(x) /\ x.v # <<>> /\ Head(x.v) # " " /\ x.v[Len(x.v)] # " "

\* A name the board create must reject: absent, no string, empty or
\* whitespace only.
NoName(x) == ~IsText(x) \/ \A i \in DOMAIN x.v : x.v[i] = " "

\* The step of a board create: a rejected name is answered 400 Name is required
\* and no Board is created; a Board that is created stores the trimmed name.
C18_CreateStep ==
    last'.op = "createBoard" =>
        /\ NoName(last'.body.name) =>
               (last'.code = 400 /\ last'.error = "Name is required" /\ boards' = boards)
        /\ ~NoName(last'.body.name) => last'.code # 400
        /\ last'.code = 201 =>
               /\ DOMAIN boards' = DOMAIN boards \cup {last'.id}
               /\ last'.id \notin DOMAIN boards
               /\ boards'[last'.id].name = Str(Trim(last'.body.name.v))
        /\ last'.code # 201 => boards' = boards

\* C18: in every reachable store state every Board's name is a non-empty
\* string with no leading or trailing whitespace; board create rejects an
\* absent, non-string, empty or whitespace-only name with 400 Name is required
\* and creates no Board, and stores the trimmed name otherwise.
C18_BoardNameTrimmed ==
    /\ [](\A b \in DOMAIN boards : TrimmedName(boards[b].name))
    /\ [][C18_CreateStep]_vars

\* C18 witness: a create whose name has leading and trailing whitespace was
\* answered 201 and the Board holds the name without it.
C18_Witness ==
    /\ last.op = "createBoard"
    /\ last.code = 201
    /\ last.body.name = Str(<<" ", "n", " ">>)
    /\ boards[last.id].name = NameN

\* The step of an update of an existing Task, by what its patch says of
\* priority and status.
C19_UpdateStep ==
    (last'.op = "updateTask" /\ last'.id \in DOMAIN tasks) =>
        LET t == last'.id
            p == last'.body
        IN  /\ p = [NoBody EXCEPT !.priority = Null] => last'.code = 200
            /\ (p.priority = Null /\ last'.code = 200) => tasks'[t].priority = Null
            /\ (~Given(p.priority) /\ last'.code = 200) =>
                   tasks'[t].priority = tasks[t].priority
            /\ p.status = Null =>
                   /\ last'.code = 400
                   /\ last'.error = "Invalid status"
                   /\ tasks' = tasks
            /\ last'.code # 200 => tasks' = tasks

\* C19: update distinguishes an absent field from an explicit null: a patch
\* with priority null succeeds and sets the priority to null, a patch without
\* a priority key leaves the priority as it was, and a patch with status null
\* is rejected with Invalid status and changes nothing.
C19_AbsentOrNull == [][C19_UpdateStep]_vars

\* C19 witness: the patch {priority: null} was answered 200 on a Task whose
\* priority was low, and the priority is now null.
C19_Witness ==
    /\ last.op = "updateTask"
    /\ last.code = 200
    /\ last.body = [NoBody EXCEPT !.priority = Null]
    /\ last.was.priority = Str(low)
    /\ tasks[last.id].priority = Null

\* The step of a delete of an existing Task: it is answered 200 with the row
\* as stored, and exactly that row is removed.
C20_FirstDelete ==
    (last'.op = "deleteTask" /\ last'.id \in DOMAIN tasks) =>
        /\ last'.code = 200
        /\ last'.task = TaskJson(last'.id, tasks[last'.id])
        /\ DOMAIN tasks' = DOMAIN tasks \ {last'.id}
        /\ \A x \in DOMAIN tasks' : tasks'[x] = tasks[x]
        /\ boards' = boards

\* The step of a delete of a Task deleted before the call began: it is
\* answered 404 and the store is as the first delete left it.
C20_SecondDelete ==
    (last'.op = "deleteTask" /\ AtLookup /\ last'.id \in IssuedTasks \ DOMAIN tasks) =>
        /\ last'.code = 404
        /\ last'.error = "Task not found"
        /\ tasks' = tasks
        /\ boards' = boards

\* C20: delete is existence-checked: the first Delete(t) of an existing Task
\* returns its last stored field values and removes exactly that Task; a
\* second Delete(t) returns not-found and leaves the store as the first left
\* it.
C20_DeleteOnce == [][C20_FirstDelete /\ C20_SecondDelete]_vars

\* C20 witness: the second delete of a Task was answered 404 while another
\* Task, whose status an update had changed, is still stored.
C20_Witness ==
    /\ last.op = "deleteTask"
    /\ last.code = 404
    /\ last.id \in IssuedTasks \ DOMAIN tasks
    /\ \E t \in DOMAIN tasks : tasks[t].status = Str(done)

\* C16: List(boardId) returns exactly the Tasks whose boardId matches (ordered
\* by the sequence field ascending, then by creation time descending, the same
\* sequence for the same store state).  Stated for what every List must do
\* first: answer 200 with exactly the Tasks of the Board.
C16_ListExact ==
    [][view'.kind = "list" =>
          /\ view'.code = 200
          /\ view'.tasks = {t \in DOMAIN tasks : tasks[t].boardId = view'.board}]_vars

\* The optimistic mutations: their handlers change the local view before the
\* fetch.
Optimistic == {"create", "status", "delete", "deleteBoard"}

\* The local view the handler of a mutation changes.
LocalView(kind) == IF kind = "deleteBoard" THEN dashboard.boards ELSE page.tasks

\* The handler on connection c ends with the given outcome in this step.
Ends(c, outcome) ==
    /\ fetches[c].phase = "pending"
    /\ fetches[c].kind \in Optimistic
    /\ fetches'[c].phase = outcome

\* C14: when an optimistic mutation fails, the local view after the rollback
\* equals the local view immediately before the tentative change: the same
\* records, the same field values, the same order.
C14_RollbackExact ==
    [][\A c \in Clients :
          Ends(c, "rolledBack") => LocalView(fetches[c].kind)' = fetches[c].before]_vars

\* A create is confirmed on connection c in this step.
CreateConfirmed(c) == Ends(c, "confirmed") /\ fetches[c].kind = "create"

Resolved(c) ==
    /\ fetches[c].phase = "pending"
    /\ fetches[c].kind \in Optimistic
    /\ fetches[c].resp # NoResp

Outcomes == {"confirmed", "rolledBack"}

\* C13: once the request of an optimistic mutation resolves or errors, the
\* mutation is confirmed or rolled back; no mutation stays pending, and an
\* outcome, once reached, is never exchanged for the other.
C13_ExactlyOneOutcome ==
    /\ \A c \in Clients : Resolved(c) ~> (fetches[c].phase \in Outcomes)
    /\ [][\A c \in Clients :
             /\ Resolved(c) => fetches'[c].phase \in Outcomes \cup {"pending"}
             /\ fetches[c].phase \in Outcomes =>
                    fetches'[c].phase \notin Outcomes \ {fetches[c].phase}
             /\ Ends(c, "confirmed") => ok(fetches[c].resp)
             /\ Ends(c, "rolledBack") => ~ok(fetches[c].resp)]_vars

\* C13 witness: a status change whose request errored was rolled back after a
\* create had been confirmed.
C13_Witness ==
    \E c \in Clients :
        /\ fetches[c].kind = "status"
        /\ fetches[c].phase = "rolledBack"
        /\ TaskId(1) \in Ids(page.tasks)

\* The latest response was produced by a handler's write step.
AtWrite == last' # NoResp /\ reqs[last'.client].op # "idle"

\* C21: an Update or Delete whose Task a concurrent Delete removed between
\* its existence check and its write is answered not-found, not an internal
\* error.
C21_LostTargetNotFound ==
    [][(AtWrite /\ last'.op \in {"updateTask", "deleteTask"} /\ last'.id \notin DOMAIN tasks) =>
          (last'.code = 404 /\ last'.error = "Task not found")]_vars

\* An Update's write on a Task that is stored.
WriteOnStored == AtWrite /\ last'.op = "updateTask" /\ last'.id \in DOMAIN tasks

\* C22: when two Updates write the same field of a Task concurrently, both
\* succeed and the field holds the value of the write applied last: every
\* write on a stored Task answers 200 and leaves the field at the value its
\* own request supplied, whatever the other request wrote before it.
C22_LastWriteWins ==
    [][WriteOnStored =>
          /\ last'.code = 200
          /\ Given(last'.body.status) =>
                 /\ tasks'[last'.id].status = last'.body.status
                 /\ last'.task.status = last'.body.status]_vars

\* C22 witness: an Update of the status succeeded; its existence check saw
\* the status todo, and its write replaced the other status a concurrent
\* Update had written in between.
C22_Witness ==
    /\ last.op = "updateTask"
    /\ last.code = 200
    /\ Given(last.body.status)
    /\ last.seen.status = Str(todo)
    /\ last.was.status \notin {Str(todo), last.body.status}
    /\ tasks[last.id].status = last.body.status

\* C27: a deleted Task is never resurrected: a Task id the store has handed
\* out and no longer holds is in no later state, also when an Update passed
\* its existence check before the Delete.
C27_NoResurrection ==
    [][\A t \in IssuedTasks \ DOMAIN tasks : t \notin DOMAIN tasks']_vars

\* C27 witness: an Update that had passed its existence check made its write
\* after a Delete removed the Task, and the Task is not stored.
C27_Witness ==
    /\ last.op = "updateTask"
    /\ last.seen # Null
    /\ last.calls = 2
    /\ last.id \in IssuedTasks \ DOMAIN tasks

\* C28: two concurrent Updates that name disjoint fields are both applied: a
\* write sets the fields its patch names and leaves every other field at the
\* value the store held when the write was applied, not at the value its
\* existence check saw.
C28_DisjointBothApplied ==
    [][(WriteOnStored /\ last'.code = 200) =>
          \A f \in PatchFields :
              tasks'[last'.id][f] = IF Given(last'.body[f])
                                    THEN SuppliedOrCleared(f, last'.body[f])
                                    ELSE last'.was[f]]_vars

\* C28 witness: an Update naming only the title succeeded; its existence
\* check saw the status todo, a concurrent Update wrote done in between, and
\* the Task holds both the new title and done.
C28_Witness ==
    /\ last.op = "updateTask"
    /\ last.code = 200
    /\ last.body.title = TitleB
    /\ ~Given(last.body.status)
    /\ last.seen.status = Str(todo)
    /\ last.was.status = Str(done)
    /\ tasks[last.id].status = Str(done)
    /\ tasks[last.id].title = TitleB

\* C29: a Task's id and boardId never change after creation: no step changes
\* the boardId of a stored Task, and an Update, whatever keys its patch
\* carries, keeps the set of stored ids and answers the Task under its id.
C29_IdentityFixed ==
    [][/\ \A t \in DOMAIN tasks \cap DOMAIN tasks' : tasks'[t].boardId = tasks[t].boardId
       /\ Updated =>
             /\ DOMAIN tasks' = DOMAIN tasks
             /\ last'.task.id = last'.id
             /\ last'.task.boardId = tasks[last'.id].boardId]_vars

\* C29 witness: an Update whose patch carried id, boardId and createdAt keys
\* succeeded, and the Task is on its Board, not the one the patch named.
C29_Witness ==
    /\ last.op = "updateTask"
    /\ last.code = 200
    /\ Given(last.body.id)
    /\ Given(last.body.boardId)
    /\ Given(last.body.createdAt)
    /\ tasks[last.id].boardId = BoardId(1)
    /\ tasks[last.id].boardId # last.body.boardId.v
    /\ tasks[last.id].priority = Str(low)

\* The operations of the board page on its Tasks.
TaskOperations == {"create", "status", "edit", "delete"}

\* A handler of the board page starts its request on connection c.
Starts(c) ==
    /\ fetches[c].phase # "pending"
    /\ fetches'[c].phase = "pending"
    /\ fetches'[c].kind \in TaskOperations

\* C23: every task operation of the board page is optimistic: its change is
\* in the local task list when the request starts, before any response, and
\* a request that fails leaves the list without it.
C23_AllOptimistic ==
    [][\A c \in Clients :
          /\ Starts(c) => page'.tasks # page.tasks
          /\ (fetches[c].phase = "pending" /\ fetches[c].kind \in TaskOperations
                  /\ fetches'[c].phase = "rolledBack") =>
                 Ids(page'.tasks) = Ids(fetches[c].before)]_vars

\* The id the open delete dialog is for, on the page a delete of the given
\* kind comes from.
PendingId(kind) == IF kind = "deleteBoard" THEN dashboard.deleteConfirm ELSE page.deletingTaskId

Deletes == {"delete", "deleteBoard"}

\* A delete handler starts its request on connection c.
DeleteStarts(c) ==
    /\ fetches[c].phase # "pending"
    /\ fetches'[c].phase = "pending"
    /\ fetches'[c].kind \in Deletes

\* A DELETE request of connection c is at the server after the step.
DeleteAtServer(c) ==
    \/ reqs'[c].op \in {"deleteTask", "deleteBoard"}
    \/ last'.client = c /\ last'.op \in {"deleteTask", "deleteBoard"}

\* The step closes a delete dialog that was not confirmed.
Cancels(kind) ==
    /\ PendingId(kind) # NoId
    /\ PendingId(kind)' = NoId
    /\ \A c \in Clients : ~DeleteStarts(c)
    /\ \A c \in Clients : ~(fetches[c].phase = "pending" /\ fetches[c].kind = "delete")

\* C30: no DELETE request is sent unless the delete dialog was opened for that
\* id and then confirmed: a delete starts only for the id of the open dialog,
\* every DELETE at the server is the request of such a delete, and Cancel
\* closes the dialog without a request and without a change of the local
\* lists.
C30_DeleteOnlyConfirmed ==
    [][/\ \A c \in Clients :
             /\ DeleteStarts(c) =>
                    /\ PendingId(fetches'[c].kind) # NoId
                    /\ fetches'[c].id = PendingId(fetches'[c].kind)
             /\ DeleteAtServer(c) =>
                    /\ fetches[c].phase = "pending"
                    /\ fetches[c].kind \in Deletes
                    /\ fetches[c].id \in {reqs'[c].id, last'.id}
       /\ \A kind \in Deletes :
             Cancels(kind) =>
                 /\ page'.tasks = page.tasks
                 /\ dashboard'.boards = dashboard.boards
                 /\ fetches' = fetches
                 /\ reqs' = reqs
                 /\ last' = last]_vars

\* C30 witness: the dialog of the page was opened for a Task and confirmed;
\* its DELETE is in flight and the Task is off the list, another still on it.
C30_Witness ==
    \E c \in Clients :
        /\ fetches[c].phase = "pending"
        /\ fetches[c].kind = "delete"
        /\ page.deletingTaskId = fetches[c].id
        /\ page.isDeleteLoading
        /\ fetches[c].id \notin Ids(page.tasks)
        /\ page.tasks # <<>>

\* No request of the board page is pending.
AllSettled == ~page.isLoading /\ \A c \in Clients : Free(c)

\* C24: when status changes on the same Task overlap in flight and their
\* responses arrive in any order, then once no request is pending the status
\* the local list shows for a Task is its status in the store.
C24_StatusConverges ==
    AllSettled =>
        \A i \in DOMAIN page.tasks :
            page.tasks[i].id \in DOMAIN tasks =>
                page.tasks[i].status = tasks[page.tasks[i].id].status

\* An id handleCreateTask made up.
IsPlaceholder(id) == id[1] = "temp"

\* C25: whatever status change or delete was issued against a placeholder
\* while its create was in flight, once all requests have settled the local
\* list has no placeholder, no id twice, and every Task stored on the Board
\* once.
C25_NoPlaceholderLeft ==
    AllSettled =>
        /\ \A i \in DOMAIN page.tasks : ~IsPlaceholder(page.tasks[i].id)
        /\ \A i, j \in DOMAIN page.tasks : page.tasks[i].id = page.tasks[j].id => i = j
        /\ \A t \in DOMAIN tasks : tasks[t].boardId = boardId => t \in Ids(page.tasks)

\* C26: the rollback of a failed Board delete brings back that Board and
\* changes nothing else of the local list: a Board confirmed while the delete
\* was in flight is still there, a Board deleted meanwhile still absent.
C26_RollbackKeepsOthers ==
    [][\A c \in Clients :
          (Ends(c, "rolledBack") /\ fetches[c].kind = "deleteBoard") =>
              Ids(dashboard'.boards) = Ids(dashboard.boards) \cup {fetches[c].id}]_vars

====
